---- MODULE Spec2Model ----
(***************************************************************************)
(* image2table-web: src/src/index.ts.                                      *)
(*                                                                         *)
(* processOcrData (column detection and row construction), the text        *)
(* rendering of AppRequest.start, and the asynchronous life of the         *)
(* AppRequests created by handlePaste.                                     *)
(*                                                                         *)
(* Strings are sequences of one-character strings, so that concatenation   *)
(* is \o, String.length is Len and String.slice is SubSeq.                 *)
(* Column indices are 0-based, as in the source.                           *)
(***************************************************************************)
EXTENDS Integers, Sequences, FiniteSets, TLC

\* ------------------------------------------------------------------ bounds
MaxCoord == 3
MaxSymbols == 3
MaxLines == 2
MaxWords == 3

\* ------------------------------------------------------- program constants
\* a value that may be null: NULL, or Some(v) holding v
NULL == <<>>
Some(v) == <<v>>
ValueOf(o) == o[1]

CONFIDENCE_THRESHOLD == 90
LOW_CONFIDENCE_MARKER == <<" ", "(", "?", ")">>

Coord == 0..MaxCoord
Letters == <<"a", "b", "c", "d", "e", "f", "g", "h">>

Min(a, b) == IF a < b THEN a ELSE b
Max(a, b) == IF a > b THEN a ELSE b

\* ------------------------------------------------ IntRange / IntRangeSet
\* ./intrange and ./intrangeset are imported by index.ts but are not part
\* of the available source; they are modelled from sections 3 and 4.1 of
\* the specification.
IntRange(s, e) == [start |-> s, end |-> e]

RECURSIVE InsertByStart(_, _)
InsertByStart(sorted, r) ==
  IF sorted = <<>> THEN <<r>>
  ELSE IF r.start < Head(sorted).start THEN <<r>> \o sorted
  ELSE <<Head(sorted)>> \o InsertByStart(Tail(sorted), r)

\* stable sort by start, ascending
RECURSIVE SortByStart(_)
SortByStart(ranges) ==
  IF ranges = <<>> THEN <<>>
  ELSE InsertByStart(SortByStart(SubSeq(ranges, 1, Len(ranges) - 1)),
                     ranges[Len(ranges)])

\* left-to-right scan with a running cluster cur
RECURSIVE ScanRanges(_, _, _, _)
ScanRanges(sorted, cur, threshold, acc) ==
  IF sorted = <<>> THEN Append(acc, cur)
  ELSE LET r == Head(sorted) IN
    IF r.start - cur.end <= threshold
    THEN ScanRanges(Tail(sorted), IntRange(cur.start, Max(cur.end, r.end)),
                    threshold, acc)
    ELSE ScanRanges(Tail(sorted), r, threshold, Append(acc, cur))

NewIntRangeSet(ranges, threshold) ==
  IF ranges = <<>> THEN <<>>
  ELSE LET sorted == SortByStart(ranges)
       IN ScanRanges(Tail(sorted), Head(sorted), threshold, <<>>)

\* binary search over the sorted, disjoint clusters; lo..hi are 1-based
\* positions, the result is the 0-based cluster index.  A point in a gap
\* goes to the nearer boundary cluster (the lower one when equally near,
\* which the specification leaves open).
RECURSIVE SearchIndex(_, _, _, _)
SearchIndex(set, point, lo, hi) ==
  IF lo > hi
  THEN IF hi = 0 THEN 0
       ELSE IF lo > Len(set) THEN Len(set) - 1
       ELSE IF point - set[hi].end <= set[lo].start - point THEN hi - 1
       ELSE lo - 1
  ELSE LET mid == (lo + hi) \div 2 IN
       IF point < set[mid].start THEN SearchIndex(set, point, lo, mid - 1)
       ELSE IF point > set[mid].end THEN SearchIndex(set, point, mid + 1, hi)
       ELSE mid - 1

getIndex(set, point) ==
  Some(IF set = <<>> THEN 0 ELSE SearchIndex(set, point, 1, Len(set)))

\* --------------------------------------------------------- processOcrData
\* columnRanges.push({ start: symbol.bbox.x0, end: symbol.bbox.x1 })
ColumnRanges(symbols) ==
  [k \in 1..Len(symbols) |-> IntRange(symbols[k].bbox.x0, symbols[k].bbox.x1)]

MergeThreshold_Unscaled(options) == options.columnThreshold

MergeThreshold(options) == options.columnThreshold * options.scale

ColumnRangeSet(pg, options) ==
  NewIntRangeSet(ColumnRanges(pg.symbols), MergeThreshold(options))

\* word.bbox.x0 / scale: the exact quotient, kept as a fraction
Quotient(a, b) == <<a, b>>

IsLowConfidence_Inclusive(confidence, confidenceThreshold) ==
  confidence <= confidenceThreshold

IsLowConfidence(confidence, confidenceThreshold) ==
  confidence < confidenceThreshold

LowConfidenceBox(word, options) ==
  [x0 |-> Quotient(word.bbox.x0, options.scale),
   x1 |-> Quotient(word.bbox.x1, options.scale)]

LookupPoint_X1(word) == word.bbox.x1

\* columnRangeSet.getIndex(word.bbox.x0)
LookupPoint(word) == word.bbox.x0

\* cellConfidence = Math.min(cellConfidence, word.confidence)
MergedConfidence_LastWord(cellConfidence, wordConfidence) == wordConfidence

MergedConfidence(cellConfidence, wordConfidence) ==
  Min(cellConfidence, wordConfidence)

\* cellContents = `${cellContents} ${word.text}`
AppendWord_Overwrite(cellContents, text) == text

AppendWord(cellContents, text) == cellContents \o <<" ">> \o text

\* the state of the loop over one Line's words
NewRowState ==
  [row |-> <<>>, cellContents |-> NULL, cellConfidence |-> 100,
   currentColumn |-> NULL]

\* if (cellContents !== null) { marker if low; row.push(cellContents) }
FinalizeCell(st, options) ==
  IF st.cellContents # NULL
  THEN Append(st.row,
              IF IsLowConfidence(st.cellConfidence, options.confidenceThreshold)
              THEN ValueOf(st.cellContents) \o options.lowConfidenceMarker
              ELSE ValueOf(st.cellContents))
  ELSE st.row

\* for (k = (thisWordColumn - currentColumn) - 1; k > 0; k -= 1) row.push('')
RECURSIVE PushBlanks(_, _)
PushBlanks(r, k) == IF k > 0 THEN PushBlanks(Append(r, <<>>), k - 1) ELSE r

BlankCount_NoMinusOne(thisWordColumn, currentColumn) ==
  thisWordColumn - currentColumn

BlankCount(thisWordColumn, currentColumn) ==
  (thisWordColumn - currentColumn) - 1

\* the body of the loop over words, after the lookup
WordStep(st, word, thisWordColumn, options) ==
  IF thisWordColumn = st.currentColumn
  THEN [st EXCEPT
          !.cellConfidence = MergedConfidence(st.cellConfidence,
                                              word.confidence),
          !.cellContents =
             IF st.cellContents = NULL THEN Some(word.text)
             ELSE Some(AppendWord(ValueOf(st.cellContents), word.text))]
  ELSE LET finalized == FinalizeCell(st, options)
           cur == IF st.currentColumn = NULL THEN 0
                  ELSE ValueOf(st.currentColumn)
       IN [row |-> IF thisWordColumn # NULL
                   THEN PushBlanks(finalized,
                                   BlankCount(ValueOf(thisWordColumn), cur))
                   ELSE finalized,
           cellContents |-> Some(word.text),
           cellConfidence |-> word.confidence,
           currentColumn |-> thisWordColumn]

\* row, cellContents, cellConfidence and currentColumn are declared inside
\* the loop over lines: every Line starts from NewRowState
ResetRowState_KeepColumn(previous) ==
  [NewRowState EXCEPT !.currentColumn = previous.currentColumn]

ResetRowState(previous) == NewRowState

RECURSIVE ProcessWords(_, _, _, _)
ProcessWords(st, words, set, options) ==
  IF words = <<>> THEN st
  ELSE ProcessWords(
         WordStep(st, Head(words), getIndex(set, LookupPoint(Head(words))),
                  options),
         Tail(words), set, options)

ProcessLine(line, set, options) ==
  FinalizeCell(ProcessWords(NewRowState, line.words, set, options), options)

RECURSIVE LowBoxes(_, _)
LowBoxes(words, options) ==
  IF words = <<>> THEN <<>>
  ELSE (IF IsLowConfidence(Head(words).confidence, options.confidenceThreshold)
        THEN <<LowConfidenceBox(Head(words), options)>> ELSE <<>>)
       \o LowBoxes(Tail(words), options)

RECURSIVE AllLowBoxes(_, _)
AllLowBoxes(lines, options) ==
  IF lines = <<>> THEN <<>>
  ELSE LowBoxes(Head(lines).words, options) \o AllLowBoxes(Tail(lines), options)

processOcrData(pg, options) ==
  LET set == ColumnRangeSet(pg, options) IN
  [table |-> [n \in 1..Len(pg.lines) |-> ProcessLine(pg.lines[n], set, options)],
   lowConfidenceBoxes |-> AllLowBoxes(pg.lines, options)]

\* ------------------------------------------------------- AppRequest.start
\* text.slice(0, -1)
SliceLast(str) == SubSeq(str, 1, Len(str) - 1)

\* for each cell: text = `${text}${cell}${delimiter}`
RECURSIVE AppendCells(_, _, _)
AppendCells(str, row, delimiter) ==
  IF row = <<>> THEN str
  ELSE AppendCells(str \o Head(row) \o delimiter, Tail(row), delimiter)

\* for each cell: lengthOfLongestWord = Math.max(cell.length, ...)
RECURSIVE LongestCell(_, _)
LongestCell(longest, row) ==
  IF row = <<>> THEN longest
  ELSE LongestCell(Max(Len(Head(row)), longest), Tail(row))

\* one iteration of the loop over the rows of the table
RenderRow(str, row, delimiter) ==
  LET cells == AppendCells(str, row, delimiter)
  IN (IF Len(row) >= 1 THEN SliceLast(cells) ELSE cells) \o <<"\n">>

RECURSIVE RenderRows(_, _, _)
RenderRows(r, rows, delimiter) ==
  IF rows = <<>> THEN r
  ELSE RenderRows([text |-> RenderRow(r.text, Head(rows), delimiter),
                   lengthOfLongestWord |->
                     LongestCell(r.lengthOfLongestWord, Head(rows))],
                  Tail(rows), delimiter)

RenderStart == [text |-> <<>>, lengthOfLongestWord |-> 1]

RenderTable(rows, delimiter) == RenderRows(RenderStart, rows, delimiter)

\* the section an AppRequest builds in its constructor
NewSection ==
  [message |-> "Loading", textarea |-> <<>>, hidden |-> TRUE, tabSize |-> 0,
   img |-> <<>>]

ThisEl_First(request) == 1

\* this.el, this.elTextarea, this.elImg: the request's own elements
ThisEl(request) == request.el

\* the collaborators of start, each a function of its arguments
ScaleImage(image, scale) == [image |-> image, scale |-> scale]

MarkBoxes(image, boxes) == <<image, boxes>>

\* ------------------------------------------------------------------ state
VARIABLES page, processingOptions, pc, columnRangeSet, i, j, rowState,
          thisWordColumn, table, lowConfidenceBoxes,
          text, lengthOfLongestWord, appRequests, elements

vars == <<page, processingOptions, pc, columnRangeSet, i, j, rowState,
          thisWordColumn, table, lowConfidenceBoxes,
          text, lengthOfLongestWord, appRequests, elements>>

ocrVars == <<page, columnRangeSet, j, rowState, thisWordColumn,
             lowConfidenceBoxes>>
renderVars == <<text, lengthOfLongestWord>>
appVars == <<appRequests, elements>>

\* ----------------------------------------------------------------- inputs
Bbox(a, b) == [x0 |-> a, x1 |-> b]

Options(scale, columnThreshold) ==
  [scale |-> scale, delimiter |-> <<"\t">>, columnThreshold |-> columnThreshold,
   confidenceThreshold |-> CONFIDENCE_THRESHOLD,
   lowConfidenceMarker |-> LOW_CONFIDENCE_MARKER]

SeqsUpTo(S, n) == UNION {[1..m -> S] : m \in 0..n}

\* one glyph per column position 0..k-1
GlyphColumns(k) == [c \in 1..k |-> [bbox |-> Bbox(c - 1, c - 1)]]

\* the n-th word of a Line: the texts are distinct letters in reading order
WordOf(n, x, conf) ==
  [text |-> <<Letters[n]>>, confidence |-> conf, bbox |-> Bbox(x, x)]

Confidences == {CONFIDENCE_THRESHOLD - 1, CONFIDENCE_THRESHOLD}

\* Pages of one Line of up to MaxWords words, and Pages of up to MaxLines
\* Lines of at most one word; every word anywhere on the axis, with a
\* confidence just below or at the threshold
LinePages ==
  {<<[words |-> [n \in 1..Len(xs) |-> WordOf(n, xs[n][1], xs[n][2])]]>> :
     xs \in SeqsUpTo(Coord \X Confidences, MaxWords)}

ShortLines ==
  {[words |-> <<>>]} \cup
  {[words |-> <<WordOf(1, q[1], q[2])>>] : q \in Coord \X Confidences}

TablePages ==
  {[symbols |-> GlyphColumns(k), lines |-> ls] :
     k \in 0..(MaxCoord + 1),
     ls \in LinePages \cup SeqsUpTo(ShortLines, MaxLines)}

InitApp ==
  /\ text = <<>>
  /\ lengthOfLongestWord = 1
  /\ appRequests = <<>>
  /\ elements = <<>>

InitLocals ==
  /\ InitApp
  /\ pc = "start"
  /\ columnRangeSet = <<>>
  /\ i = 0
  /\ j = 0
  /\ rowState = NewRowState
  /\ thisWordColumn = NULL
  /\ table = <<>>
  /\ lowConfidenceBoxes = <<>>

\* scale 1 and columnThreshold 0 make every glyph position its own column;
\* the confidences lie on both sides of the default threshold
Init ==
  /\ page \in TablePages
  /\ processingOptions = Options(1, 0)
  /\ InitLocals

\* ---------------------------------------------------------------- actions
\* lines 131-137
BuildColumns ==
  /\ pc = "start"
  /\ columnRangeSet' = ColumnRangeSet(page, processingOptions)
  /\ pc' = "lines"
  /\ UNCHANGED <<page, processingOptions, i, j, rowState, thisWordColumn,
                 table, lowConfidenceBoxes,
                 renderVars, appVars>>

\* lines 140-146
BeginLine ==
  /\ pc = "lines"
  /\ i < Len(page.lines)
  /\ rowState' = ResetRowState(rowState)
  /\ j' = 0
  /\ pc' = "words"
  /\ UNCHANGED <<page, processingOptions, columnRangeSet, i, thisWordColumn,
                 table, lowConfidenceBoxes,
                 renderVars, appVars>>

\* lines 148-197
ProcessWord ==
  /\ pc = "words"
  /\ j < Len(page.lines[i + 1].words)
  /\ LET word == page.lines[i + 1].words[j + 1]
         col == getIndex(columnRangeSet, LookupPoint(word))
     IN /\ lowConfidenceBoxes' =
             IF IsLowConfidence(word.confidence,
                                processingOptions.confidenceThreshold)
             THEN Append(lowConfidenceBoxes,
                         LowConfidenceBox(word, processingOptions))
             ELSE lowConfidenceBoxes
        /\ thisWordColumn' = col
        /\ rowState' = WordStep(rowState, word, col, processingOptions)
  /\ j' = j + 1
  /\ UNCHANGED <<page, processingOptions, pc, columnRangeSet, i, table,
                 renderVars, appVars>>

\* lines 199-208
EndLine ==
  /\ pc = "words"
  /\ j >= Len(page.lines[i + 1].words)
  /\ table' = Append(table, FinalizeCell(rowState, processingOptions))
  /\ i' = i + 1
  /\ pc' = "lines"
  /\ UNCHANGED <<page, processingOptions, columnRangeSet, j, rowState,
                 thisWordColumn, lowConfidenceBoxes,
                 renderVars, appVars>>

\* line 211
Return ==
  /\ pc = "lines"
  /\ i >= Len(page.lines)
  /\ pc' = "done"
  /\ UNCHANGED <<page, processingOptions, columnRangeSet, i, j, rowState,
                 thisWordColumn, table, lowConfidenceBoxes,
                 renderVars, appVars>>

Next == BuildColumns \/ BeginLine \/ ProcessWord \/ EndLine \/ Return

Spec == Init /\ [][Next]_vars

\* ------------------------------------------- inputs for column detection
\* up to MaxSymbols glyphs of width 0 or 1 anywhere on the axis, in any
\* order, merge thresholds 0, 1 and 2, and one Line of one Word anywhere on
\* the axis
Intervals ==
  {IntRange(a, b) : <<a, b>> \in {q \in Coord \X Coord : q[2] - q[1] \in 0..1}}

ClusterPages ==
  {[symbols |-> [k \in 1..Len(rs) |-> [bbox |-> Bbox(rs[k].start, rs[k].end)]],
    lines |-> <<[words |-> <<[text |-> <<Letters[1]>>,
                              confidence |-> CONFIDENCE_THRESHOLD,
                              bbox |-> Bbox(x, Min(x + 1, MaxCoord))]>>]>>] :
     rs \in SeqsUpTo(Intervals, MaxSymbols), x \in Coord}

InitCluster ==
  /\ page \in ClusterPages
  /\ processingOptions \in {Options(sc, ct) : sc \in 1..2, ct \in 0..1}
  /\ InitLocals

SpecCluster == InitCluster /\ [][Next]_vars

\* ------------------------------------- the rendering loop of start
\* lines 318-339, one row of the table per step
RenderNextRow ==
  /\ pc = "render"
  /\ i < Len(table)
  /\ text' = RenderRow(text, table[i + 1], processingOptions.delimiter)
  /\ lengthOfLongestWord' = LongestCell(lengthOfLongestWord, table[i + 1])
  /\ i' = i + 1
  /\ UNCHANGED <<processingOptions, pc, table, ocrVars, appVars>>

\* lines 341-342
SetTextarea ==
  /\ pc = "render"
  /\ i >= Len(table)
  /\ elements' = [elements EXCEPT ![1].textarea = text,
                                  ![1].tabSize = lengthOfLongestWord + 2]
  /\ pc' = "shown"
  /\ UNCHANGED <<processingOptions, i, table, ocrVars, renderVars,
                 appRequests>>

NextRender == RenderNextRow \/ SetTextarea

\* tables of up to MaxRows rows of up to MaxCells cells, and delimiters of
\* zero, one and two characters
MaxRows == 2
MaxCells == 2

Cells == {<<>>, <<"a">>, <<"a", "b">>}
Delimiters == {<<"\t">>, <<",">>, <<",", " ">>, <<>>}

InitRender ==
  /\ table \in SeqsUpTo(SeqsUpTo(Cells, MaxCells), MaxRows)
  /\ processingOptions \in
       {[Options(1, 0) EXCEPT !.delimiter = d] : d \in Delimiters}
  /\ pc = "render"
  /\ i = 0
  /\ text = <<>>
  /\ lengthOfLongestWord = 1
  /\ elements = <<[NewSection EXCEPT !.hidden = FALSE]>>
  /\ appRequests = <<>>
  /\ page = [symbols |-> <<>>, lines |-> <<>>]
  /\ columnRangeSet = <<>>
  /\ j = 0
  /\ rowState = NewRowState
  /\ thisWordColumn = NULL
  /\ lowConfidenceBoxes = <<>>

SpecRender == InitRender /\ [][NextRender]_vars

\* ------------------------------------------- handlePaste and AppRequests
NUM_WORKERS == 3
MaxRequests == 3

\* what recognition returns for the image of file f: two glyph columns and
\* two lines whose texts, columns and confidences differ from file to file
PageOfImage(f) ==
  [symbols |-> GlyphColumns(2),
   lines |-> <<[words |-> <<WordOf(f, f % 2, CONFIDENCE_THRESHOLD - (f % 2))>>],
               [words |-> <<WordOf(f + 1, 0, CONFIDENCE_THRESHOLD),
                            WordOf(f, 1, CONFIDENCE_THRESHOLD - 1)>>]>>]

Recognize(scaledImage) == PageOfImage(scaledImage.image)

\* getProcessingOptions: delimiter = btnTab.checked ? '\t' : ','
PastedOptions == {[Options(1, 0) EXCEPT !.delimiter = d] : d \in {<<"\t">>, <<",">>}}

\* handlePaste, and each createAppRequest up to its await of
\* readFileAsDataURL: n files, one set of options for all of them
Paste(n, options) ==
  /\ Len(appRequests) + n <= MaxRequests
  /\ appRequests' = appRequests \o
       [k \in 1..n |-> [file |-> Len(appRequests) + k, options |-> options,
                        pc |-> "reading", el |-> 0]]
  /\ UNCHANGED <<processingOptions, pc, i, table, ocrVars, renderVars, elements>>

\* readFileAsDataURL resolves: new AppRequest(...), and start up to its
\* await of scaleImage
FileLoaded(r) ==
  /\ appRequests[r].pc = "reading"
  /\ elements' = Append(elements,
       [NewSection EXCEPT !.img = <<appRequests[r].file>>,
                          !.message = "Resizing"])
  /\ appRequests' = [appRequests EXCEPT ![r].pc = "scaling",
                                        ![r].el = Len(elements) + 1]
  /\ UNCHANGED <<processingOptions, pc, i, table, ocrVars, renderVars>>

\* scaleImage resolves: scheduler.addJob('recognize', scaledImage)
ImageScaled(r) ==
  /\ appRequests[r].pc = "scaling"
  /\ elements' = [elements EXCEPT ![ThisEl(appRequests[r])].message = "Converting"]
  /\ appRequests' = [appRequests EXCEPT ![r].pc = "queued"]
  /\ UNCHANGED <<processingOptions, pc, i, table, ocrVars, renderVars>>

Recognizing == {r \in 1..Len(appRequests) : appRequests[r].pc = "recognizing"}

\* one of the NUM_WORKERS workers of the scheduler takes a queued job
JobStarted(r) ==
  /\ appRequests[r].pc = "queued"
  /\ Cardinality(Recognizing) < NUM_WORKERS
  /\ appRequests' = [appRequests EXCEPT ![r].pc = "recognizing"]
  /\ UNCHANGED <<processingOptions, pc, i, table, ocrVars, renderVars, elements>>

\* addJob resolves: processOcrData, the rendering loop, the textarea, and
\* start up to its await of markBoxes
JobDone(r) ==
  /\ appRequests[r].pc = "recognizing"
  /\ LET q == appRequests[r]
         data == Recognize(ScaleImage(q.file, q.options.scale))
         result == processOcrData(data, q.options)
         rendered == RenderTable(result.table, q.options.delimiter)
     IN elements' = [elements EXCEPT
          ![ThisEl(q)].message = "Completed",
          ![ThisEl(q)].hidden = FALSE,
          ![ThisEl(q)].tabSize = rendered.lengthOfLongestWord + 2,
          ![ThisEl(q)].textarea = rendered.text]
  /\ appRequests' = [appRequests EXCEPT ![r].pc = "marking"]
  /\ UNCHANGED <<processingOptions, pc, i, table, ocrVars, renderVars>>

\* markBoxes resolves: this.elImg.src = markedImage
BoxesMarked(r) ==
  /\ appRequests[r].pc = "marking"
  /\ LET q == appRequests[r]
         data == Recognize(ScaleImage(q.file, q.options.scale))
         result == processOcrData(data, q.options)
     IN elements' = [elements EXCEPT
          ![ThisEl(q)].img = MarkBoxes(q.file, result.lowConfidenceBoxes)]
  /\ appRequests' = [appRequests EXCEPT ![r].pc = "done"]
  /\ UNCHANGED <<processingOptions, pc, i, table, ocrVars, renderVars>>

NextApp ==
  \/ \E n \in 1..MaxRequests, options \in PastedOptions : Paste(n, options)
  \/ \E r \in 1..Len(appRequests) : FileLoaded(r)
  \/ \E r \in 1..Len(appRequests) : ImageScaled(r)
  \/ \E r \in 1..Len(appRequests) : JobStarted(r)
  \/ \E r \in 1..Len(appRequests) : JobDone(r)
  \/ \E r \in 1..Len(appRequests) : BoxesMarked(r)

InitAppRequests ==
  /\ InitApp
  /\ processingOptions = Options(1, 0)
  /\ pc = "idle"
  /\ i = 0
  /\ table = <<>>
  /\ page = [symbols |-> <<>>, lines |-> <<>>]
  /\ columnRangeSet = <<>>
  /\ j = 0
  /\ rowState = NewRowState
  /\ thisWordColumn = NULL
  /\ lowConfidenceBoxes = <<>>

SpecApp == InitAppRequests /\ [][NextApp]_vars

\* ================================================================ claims
Words(n) == page.lines[n].words

\* the column of every word of a line, looked up at its bbox.x0
Columns(words) ==
  [k \in 1..Len(words) |->
     ValueOf(getIndex(columnRangeSet, words[k].bbox.x0))]

IsRunStart(c, k) == k = 1 \/ c[k] # c[k - 1]

\* the last word of the maximal run that starts at s
RunEnd(c, s) ==
  CHOOSE e \in s..Len(c) :
    /\ \A m \in s..e : c[m] = c[s]
    /\ e = Len(c) \/ c[e + 1] # c[s]

\* the first word of the maximal run that ends at e
RunStart(c, e) ==
  CHOOSE s \in 1..e :
    /\ \A m \in s..e : c[m] = c[e]
    /\ s = 1 \/ c[s - 1] # c[e]

RECURSIVE JoinTexts(_, _, _)
JoinTexts(words, s, e) ==
  IF s = e THEN words[s].text
  ELSE JoinTexts(words, s, e - 1) \o <<" ">> \o words[e].text

MinConfidence(words, s, e) ==
  CHOOSE m \in {words[k].confidence : k \in s..e} :
    \A k \in s..e : m <= words[k].confidence

Marker(words, s, e) ==
  IF MinConfidence(words, s, e) < processingOptions.confidenceThreshold
  THEN processingOptions.lowConfidenceMarker ELSE <<>>

MarkedCell(words, s, e) == JoinTexts(words, s, e) \o Marker(words, s, e)

Blanks(n) == [k \in 1..n |-> <<>>]

SkippedBefore(c, s) == Max(0, c[s] - (IF s = 1 THEN 0 ELSE c[s - 1]) - 1)

\* the Row of a line, run by run; marked says whether a low-confidence
\* cell carries the marker
RECURSIVE RowFrom(_, _, _, _)
RowFrom(words, c, k, marked) ==
  IF k > Len(words) THEN <<>>
  ELSE (IF IsRunStart(c, k)
        THEN Blanks(SkippedBefore(c, k))
             \o <<IF marked THEN MarkedCell(words, k, RunEnd(c, k))
                  ELSE JoinTexts(words, k, RunEnd(c, k))>>
        ELSE <<>>)
       \o RowFrom(words, c, k + 1, marked)

EndsWithMarker(cell) ==
  LET m == processingOptions.lowConfidenceMarker IN
  /\ Len(cell) >= Len(m)
  /\ SubSeq(cell, Len(cell) - Len(m) + 1, Len(cell)) = m

LowWords ==
  UNION {{<<n, k>> : k \in {m \in 1..Len(Words(n)) :
                              Words(n)[m].confidence <
                                processingOptions.confidenceThreshold}} :
           n \in 1..Len(page.lines)}

\* C1: when processOcrData has returned, lowConfidenceBoxes has one entry
\* per Word of the Page whose confidence is strictly below
\* confidenceThreshold, whether the word was merged into a cell or opened one.
C1_LowConfidenceBoxCount ==
  pc = "done" => Len(lowConfidenceBoxes) = Cardinality(LowWords)

\* a low word merged into an open cell and a low word that opened a cell
C1_Witness ==
  /\ pc = "done"
  /\ Len(lowConfidenceBoxes) >= 2
  /\ \E n \in 1..Len(page.lines) :
       LET c == Columns(Words(n)) IN
       /\ Len(c) >= 3
       /\ c[1] = c[2] /\ c[2] # c[3]
       /\ Words(n)[2].confidence < processingOptions.confidenceThreshold
       /\ Words(n)[3].confidence < processingOptions.confidenceThreshold
       /\ Words(n)[1].confidence >= processingOptions.confidenceThreshold

\* C2 (as stated): the Row of every Line is, run by run of equal column
\* index, max(0, col - prev - 1) empty cells and then one cell that is the
\* run's word texts joined by single spaces.
C2_RowIsJoinedRuns ==
  pc = "done" =>
    \A n \in 1..Len(page.lines) :
      table[n] = RowFrom(Words(n), Columns(Words(n)), 1, FALSE)

\* C2 (amended): the same, where the cell of a run whose minimum confidence
\* is below confidenceThreshold is the joined texts followed by
\* lowConfidenceMarker.
C2_RowIsMarkedRuns ==
  pc = "done" =>
    \A n \in 1..Len(page.lines) :
      table[n] = RowFrom(Words(n), Columns(Words(n)), 1, TRUE)

\* words in columns 0,0,2: merged cell, one empty cell, the column-2 cell
C2_Witness ==
  /\ pc = "done"
  /\ \E n \in 1..Len(page.lines) :
       /\ Columns(Words(n)) = <<0, 0, 2>>
       /\ Len(table[n]) = 3
       /\ table[n][2] = <<>>
       /\ Words(n)[1].confidence < processingOptions.confidenceThreshold

\* C3: whenever a cell is finalized, at a column change or at the end of a
\* Line, the pushed cell is the merged text followed by exactly one
\* lowConfidenceMarker if the minimum confidence of the words merged into it
\* is below confidenceThreshold, and the merged text alone otherwise.
C3_MarkerIffLow ==
  [][(pc = "words" /\ rowState.cellContents # NULL) =>
       LET words == Words(i + 1)
           s == RunStart(Columns(words), j)
           at == Len(rowState.row) + 1
       IN /\ (pc' = "words" /\ rowState'.currentColumn # rowState.currentColumn)
               => rowState'.row[at] = MarkedCell(words, s, j)
          /\ pc' = "lines"
               => table'[i + 1] = Append(rowState.row, MarkedCell(words, s, j))
    ]_vars

\* a marked cell closed by a column change, then an unmarked last cell
C3_Witness ==
  /\ pc = "done"
  /\ \E n \in 1..Len(page.lines) :
       /\ Len(Words(n)) >= 3
       /\ Len(table[n]) = 2
       /\ EndsWithMarker(table[n][1])
       /\ ~EndsWithMarker(table[n][2])

\* C4 (as stated): a Page with no symbols and one Line of one Word gives a
\* one-row Table whose single cell is the Word's text.
C4_SingleWordIsItsText ==
  (pc = "done" /\ page.symbols = <<>> /\ Len(page.lines) = 1
     /\ Len(Words(1)) = 1)
    => table = << <<Words(1)[1].text>> >>

\* C4 (amended): with no symbols every word of a Line is in column 0: a Line
\* with words gives exactly one cell, all its texts joined by single spaces,
\* followed by lowConfidenceMarker if one of them is below
\* confidenceThreshold; no empty cell is emitted.
C4_NoSymbolsSingleColumn ==
  (pc = "done" /\ page.symbols = <<>>) =>
    \A n \in 1..Len(page.lines) :
      table[n] = IF Words(n) = <<>> THEN <<>>
                 ELSE <<MarkedCell(Words(n), 1, Len(Words(n)))>>

C4_Witness ==
  /\ pc = "done"
  /\ page.symbols = <<>>
  /\ \E n \in 1..Len(page.lines) :
       /\ Len(Words(n)) >= 2
       /\ Words(n)[1].bbox.x0 # Words(n)[2].bbox.x0
       /\ Len(table[n]) = 1

\* the distance from a point to a cluster
Distance(r, point) ==
  IF point < r.start THEN r.start - point
  ELSE IF point > r.end THEN point - r.end ELSE 0

\* C5: every lookup made by the word loop yields an index, never null: the
\* cluster that contains the point; for a point in no cluster a nearest
\* cluster, which is index 0 before the first cluster and the last index
\* after the last; index 0 of the implicit single column when the cluster
\* set is empty.
C5_LookupIsTotal ==
  (pc = "words" /\ j > 0) =>
    LET point == Words(i + 1)[j].bbox.x0
        set == columnRangeSet
    IN /\ thisWordColumn # NULL
       /\ LET col == ValueOf(thisWordColumn) IN
          IF set = <<>> THEN col = 0
          ELSE /\ col \in 0..(Len(set) - 1)
               /\ \A k \in 1..Len(set) :
                    Distance(set[col + 1], point) <= Distance(set[k], point)
               /\ point < set[1].start => col = 0
               /\ point > set[Len(set)].end => col = Len(set) - 1

\* a lookup in a gap that is nearer to the upper cluster
C5_Witness ==
  /\ pc = "words" /\ j > 0
  /\ Len(columnRangeSet) = 2
  /\ thisWordColumn = Some(1)
  /\ Words(i + 1)[j].bbox.x0 < columnRangeSet[2].start
  /\ Words(i + 1)[j].bbox.x0 > columnRangeSet[1].end

\* C6: the clusters have strictly increasing starts, do not overlap, are
\* more than columnThreshold * scale apart, and every symbol interval lies
\* in exactly one of them.
C6_ClustersDisjointAndCover ==
  pc # "start" =>
    LET set == columnRangeSet IN
    /\ \A k \in 1..(Len(set) - 1) :
         /\ set[k].start < set[k + 1].start
         /\ set[k].end < set[k + 1].start
         /\ set[k + 1].start - set[k].end >
              processingOptions.columnThreshold * processingOptions.scale
    /\ \A k \in 1..Len(set) : set[k].start <= set[k].end
    /\ \A n \in 1..Len(page.symbols) :
         Cardinality({k \in 1..Len(set) :
                        /\ set[k].start <= page.symbols[n].bbox.x0
                        /\ page.symbols[n].bbox.x1 <= set[k].end}) = 1

\* chained merging: three symbols in one cluster, the outer two further
\* apart than the threshold; given out of order
C6_Witness ==
  /\ pc # "start"
  /\ Len(page.symbols) = 3
  /\ Len(columnRangeSet) = 1
  /\ page.symbols[2].bbox.x0 - page.symbols[3].bbox.x1 >
       processingOptions.columnThreshold * processingOptions.scale
  /\ processingOptions.columnThreshold * processingOptions.scale > 0

\* C7: the Table has one Row per Line, in Page order; each Row is what the
\* Line alone gives (nothing carries over from the Line before); a Line
\* without Words gives an empty Row and a Page without Lines an empty Table.
C7_OneRowPerLine ==
  pc = "done" =>
    /\ Len(table) = Len(page.lines)
    /\ \A n \in 1..Len(page.lines) :
         /\ table[n] = processOcrData([symbols |-> page.symbols,
                                       lines |-> <<page.lines[n]>>],
                                      processingOptions).table[1]
         /\ Words(n) = <<>> => table[n] = <<>>

\* two Lines that both end in column 2: the second Row has its own empty
\* cell before its word
C7_Witness ==
  /\ pc = "done"
  /\ Len(page.lines) = 2
  /\ Words(1) # <<>> /\ Words(2) # <<>>
  /\ Columns(Words(1))[Len(Words(1))] = Columns(Words(2))[1]
  /\ Columns(Words(2))[1] >= 2
  /\ Len(table[2]) = 2

IsNonDecreasing(c) == \A k \in 1..(Len(c) - 1) : c[k] <= c[k + 1]

\* C10: for a Line whose words map to non-decreasing columns, the cell
\* built from the words of column c is at position c (0-based) of the Row.
C10_ColumnAtItsPosition ==
  pc = "done" =>
    \A n \in 1..Len(page.lines) :
      LET c == Columns(Words(n)) IN
      IsNonDecreasing(c) =>
        \A s \in 1..Len(c) :
          IsRunStart(c, s) =>
            /\ Len(table[n]) >= c[s] + 1
            /\ table[n][c[s] + 1] = MarkedCell(Words(n), s, RunEnd(c, s))

\* each row's cells joined with the delimiter
RECURSIVE JoinCells(_, _)
JoinCells(row, delimiter) ==
  IF row = <<>> THEN <<>>
  ELSE IF Len(row) = 1 THEN row[1]
  ELSE row[1] \o delimiter \o JoinCells(Tail(row), delimiter)

RECURSIVE JoinedRows(_, _)
JoinedRows(rows, delimiter) ==
  IF rows = <<>> THEN <<>>
  ELSE JoinCells(Head(rows), delimiter) \o <<"\n">>
       \o JoinedRows(Tail(rows), delimiter)

C9_OwnResultOnly ==
  \A r \in 1..Len(appRequests) :
    LET q == appRequests[r]
        result == processOcrData(PageOfImage(q.file), q.options)
    IN q.el # 0 =>
         /\ q.el \in 1..Len(elements)
         /\ \A o \in 1..Len(appRequests) : o # r => appRequests[o].el # q.el
         /\ elements[q.el].textarea =
              IF q.pc \in {"marking", "done"}
              THEN RenderTable(result.table, q.options.delimiter).text
              ELSE <<>>
         /\ elements[q.el].img =
              IF q.pc = "done" THEN <<q.file, result.lowConfidenceBoxes>>
              ELSE <<q.file>>

\* two requests of one paste, finished in the opposite order of their
\* creation, while two others are still at work
C9_Witness ==
  /\ Len(appRequests) >= 3
  /\ appRequests[1].el = 2 /\ appRequests[2].el = 1
  /\ appRequests[1].pc = "marking" /\ appRequests[2].pc = "done"
  /\ appRequests[3].pc = "recognizing"
  /\ elements[1].textarea # elements[2].textarea

====
